---- MODULE Spec2Model ----
(***************************************************************************)
(* Budget-Manager: the record store (budget.py), its validation and        *)
(* calculation helpers, the command parser (parser_utils.py) and the       *)
(* interactive session (main.py), as a state machine.                      *)
(*                                                                         *)
(* A Python string is a sequence of one-character strings.  A JSON/Python  *)
(* value is a record [t, n, s]: an int (t = "int", value n), a str         *)
(* (t = "str", characters s) or the absence of a dict key (t = "absent").  *)
(* The result of a call that may raise is a record whose field exc names   *)
(* the exception ("none" when the call returns).                           *)
(***************************************************************************)
EXTENDS Integers, Sequences, FiniteSets, TLC

VARIABLES
    data,          \* main.py: the in-memory dataset held by the session
    DEFAULT_DATA,  \* budget.py: the module-level default dataset
    aliased,       \* data["monthly_records"] is the list object of DEFAULT_DATA
    disk,          \* the content of DATA_FILE
    stack,         \* the active menu handlers above main(), innermost last
    pc,            \* what the process waits for: a prompt, or it has ended
    pending,       \* arguments of the open handle_duplicate_month_entry call
    out,           \* what handling the last input line printed
    saved,         \* outcome of the save_data call made for the last input line
    io_failures,   \* number of I/O failures the file system has produced
    last,          \* the last operation: its name, arguments and result
    typed,         \* the text handed to parse_command, or the value handed to
                   \* ensure_valid_financial_input
    reply          \* what the call returned for it, or raised

vars == <<data, DEFAULT_DATA, aliased, disk, stack, pc, pending, out, saved,
          io_failures, last, typed, reply>>

----------------------------------------------------------------------------
(* Bounds of the model                                                     *)

MaxFileRecs == 2      \* entries of monthly_records in the file read at start
MaxRecs == 3          \* records the dataset may grow to
MaxAmount == 8       \* largest amount a record field or the balance may reach
MaxDepth == 2         \* nested menu handlers above main()
MaxIOFailures == 1    \* I/O failures of the file system
MaxAdds == 1          \* "add " prefixes put in front of a line
MaxSeparators == 1    \* commas and blanks put into an amount string

----------------------------------------------------------------------------
(* Python strings and values                                               *)

DigitChars == <<"0", "1", "2", "3", "4", "5", "6", "7", "8", "9">>
IsDigit(c) == \E i \in 1..10 : DigitChars[i] = c
DigitVal(c) == (CHOOSE i \in 1..10 : DigitChars[i] = c) - 1
AllDigits(s) == \A i \in 1..Len(s) : IsDigit(s[i])

IntV(n) == [t |-> "int", n |-> n, s |-> <<>>]
StrV(s) == [t |-> "str", n |-> 0, s |-> s]
Absent == [t |-> "absent", n |-> 0, s |-> <<>>]

Ok(n) == [exc |-> "none", n |-> n]
Raise(e) == [exc |-> e, n |-> 0]

RECURSIVE lstrip(_)
lstrip(s) == IF s # <<>> /\ Head(s) = " " THEN lstrip(Tail(s)) ELSE s

RECURSIVE rstrip(_)
rstrip(s) == IF s # <<>> /\ s[Len(s)] = " " THEN rstrip(SubSeq(s, 1, Len(s) - 1)) ELSE s

strip(s) == rstrip(lstrip(s))

remove_char(s, c) == SelectSeq(s, LAMBDA x : x # c)

RECURSIVE DigitsValue(_)
DigitsValue(s) ==
    IF s = <<>> THEN 0 ELSE 10 * DigitsValue(SubSeq(s, 1, Len(s) - 1)) + DigitVal(s[Len(s)])

\* a leading sign of a numeric literal, and the rest
SignOf(s) == IF s # <<>> /\ Head(s) = "-" THEN -1 ELSE 1
Unsigned(s) == IF s # <<>> /\ Head(s) \in {"+", "-"} THEN Tail(s) ELSE s

\* int(<str>): surrounding whitespace, an optional sign, decimal digits
int_of_str(s) ==
    LET u == Unsigned(strip(s))
    IN  IF u # <<>> /\ AllDigits(u) THEN Ok(SignOf(strip(s)) * DigitsValue(u))
        ELSE Raise("ValueError")

\* int(<value>) as the code applies it to a field of a record
py_int(v) ==
    IF v.t = "int" THEN Ok(v.n)
    ELSE IF v.t = "str" THEN int_of_str(v.s)
    ELSE Raise("TypeError")

RECURSIVE NatToStr(_)
NatToStr(n) == IF n < 10 THEN <<DigitChars[n + 1]>> ELSE NatToStr(n \div 10) \o <<DigitChars[(n % 10) + 1]>>

\* str(<value>) as save_data applies it to salary and expenses
py_str(v) ==
    IF v.t = "str" THEN v.s
    ELSE IF v.n < 0 THEN <<"-">> \o NatToStr(-v.n) ELSE NatToStr(v.n)

UpperChars ==
    <<"A", "B", "C", "D", "E", "F", "G", "H", "I", "J", "K", "L",
      "M", "N", "O", "P", "Q", "R", "S", "T", "U", "V", "W", "X", "Y", "Z">>
LowerChars ==
    <<"a", "b", "c", "d", "e", "f", "g", "h", "i", "j", "k", "l",
      "m", "n", "o", "p", "q", "r", "s", "t", "u", "v", "w", "x", "y", "z">>
LowerOf(c) ==
    IF \E i \in 1..26 : UpperChars[i] = c
        THEN LowerChars[CHOOSE i \in 1..26 : UpperChars[i] = c]
    ELSE c
lower(s) == [i \in 1..Len(s) |-> LowerOf(s[i])]

----------------------------------------------------------------------------
(* validation_utils.py                                                     *)

\* the largest number of decimal digits of a finite double: float() of a longer
\* integer literal is inf
FloatMaxDigits == 309

\* the digits of a literal without its leading zeros
RECURSIVE significant(_)
significant(ds) ==
    IF ds # <<>> /\ ds[1] = "0" THEN significant(Tail(ds)) ELSE ds

\* float(<cleaned str>) followed by int(): the literals the model's inputs
\* use are [sign] digits [. digits], inf, infinity and nan; int(inf) raises
\* OverflowError, int(nan) ValueError.  Integer parts are either short enough
\* to be exact or longer than FloatMaxDigits
int_float_of_str(s) ==
    LET u == Unsigned(s)
        dots == {i \in 1..Len(u) : u[i] = "."}
        d == IF dots = {} THEN Len(u) + 1 ELSE CHOOSE i \in dots : TRUE
        ip == SubSeq(u, 1, d - 1)
        fp == SubSeq(u, d + 1, Len(u))
    IN  IF lower(u) \in {<<"i", "n", "f">>, <<"i", "n", "f", "i", "n", "i", "t", "y">>}
            THEN Raise("OverflowError")
        ELSE IF lower(u) = <<"n", "a", "n">> THEN Raise("ValueError")
        ELSE IF Cardinality(dots) <= 1 /\ AllDigits(ip) /\ AllDigits(fp) /\ Len(ip) + Len(fp) > 0
            THEN IF Len(significant(ip)) > FloatMaxDigits
                     THEN Raise("OverflowError")
                     ELSE Ok(SignOf(s) * DigitsValue(ip))
        ELSE Raise("ValueError")

\* int(float(<int>)): exact for every integer below 2^53, which the model's are
int_float_of_int(n) == Ok(n)

ensure_valid_financial_input(value) ==
    LET checked(result) ==
            IF result.exc = "OverflowError" THEN result
            ELSE IF result.exc # "none" THEN Raise("ValueError")
            ELSE IF result.n < 0 THEN Raise("ValueError")
            ELSE result
    IN  checked(IF value.t = "str"
                    THEN int_float_of_str(remove_char(remove_char(value.s, ","), " "))
                ELSE IF value.t = "int" THEN int_float_of_int(value.n)
                ELSE Raise("TypeError"))

IsMonth2(a, b) == (a = "0" /\ IsDigit(b) /\ b # "0") \/ (a = "1" /\ b \in {"0", "1", "2"})

ensure_valid_month_format(month) ==
    /\ Len(month) = 5
    /\ IsMonth2(month[1], month[2])
    /\ month[3] = "/"
    /\ IsDigit(month[4]) /\ IsDigit(month[5])

is_valid_month_format_lenient(month) ==
    \/ /\ Len(month) = 4
       /\ IsDigit(month[1]) /\ month[1] # "0"
       /\ month[2] \in {"/", "."}
       /\ IsDigit(month[3]) /\ IsDigit(month[4])
    \/ /\ Len(month) = 5
       /\ IsMonth2(month[1], month[2])
       /\ month[3] \in {"/", "."}
       /\ IsDigit(month[4]) /\ IsDigit(month[5])

\* one entry of monthly_records: a dict, or a JSON string, number or null
Rec(m, s, e) == [isdict |-> TRUE, month |-> m, salary |-> s, expenses |-> e]
NonDict == [isdict |-> FALSE, month |-> Absent, salary |-> Absent, expenses |-> Absent]

normalize_field(v) ==
    IF v.t = "absent" THEN Ok(0)
    ELSE IF py_int(v).exc # "none" THEN Raise("ValueError")
    ELSE py_int(v)

validate_and_normalize_record(record) ==
    IF ~record.isdict THEN [exc |-> "AttributeError", rec |-> record]
    ELSE IF record.month.t = "absent" THEN [exc |-> "ValueError", rec |-> record]
    ELSE IF normalize_field(record.salary).exc # "none" THEN [exc |-> "ValueError", rec |-> record]
    ELSE IF normalize_field(record.expenses).exc # "none" THEN [exc |-> "ValueError", rec |-> record]
    ELSE [exc |-> "none",
          rec |-> Rec(record.month, IntV(normalize_field(record.salary).n),
                      IntV(normalize_field(record.expenses).n))]

RECURSIVE normalize_records(_)
normalize_records(records) ==
    IF records = <<>> THEN [exc |-> "none", recs |-> <<>>]
    ELSE LET r == validate_and_normalize_record(Head(records))
             rest == normalize_records(Tail(records))
         IN  IF r.exc = "AttributeError" THEN [exc |-> "AttributeError", recs |-> <<>>]
             ELSE IF rest.exc # "none" THEN rest
             ELSE IF r.exc = "ValueError" THEN rest
             ELSE [exc |-> "none", recs |-> <<r.rec>> \o rest.recs]

validate_and_normalize_data(d) ==
    LET bank == normalize_field(d.bank_balance)
        recs == normalize_records(d.monthly_records)
    IN  IF bank.exc # "none" THEN [exc |-> "ValueError", data |-> d]
        ELSE IF recs.exc # "none" THEN [exc |-> recs.exc, data |-> d]
        ELSE [exc |-> "none",
              data |-> [monthly_records |-> recs.recs, bank_balance |-> IntV(bank.n)]]

----------------------------------------------------------------------------
(* calculations.py                                                         *)

SlashAt(s) == {i \in 1..Len(s) : s[i] = "/"}

get_date_key(record) ==
    LET m == IF record.month.t = "absent" THEN <<"0", "0", "/", "0", "0">> ELSE record.month.s
        p == CHOOSE i \in SlashAt(m) : TRUE
        mo == int_of_str(SubSeq(m, 1, p - 1))
        yr == int_of_str(SubSeq(m, p + 1, Len(m)))
    IN  IF Cardinality(SlashAt(m)) = 1 /\ mo.exc = "none" /\ yr.exc = "none"
            THEN <<yr.n, mo.n>>
        ELSE <<0, 0>>

KeyLess(a, b) == a[1] < b[1] \/ (a[1] = b[1] /\ a[2] < b[2])

\* sorted() is stable: a record goes after the records whose key is not greater
RECURSIVE insert_sorted(_, _)
insert_sorted(sorted, r) ==
    IF sorted = <<>> THEN <<r>>
    ELSE IF KeyLess(get_date_key(r), get_date_key(Head(sorted))) THEN <<r>> \o sorted
    ELSE <<Head(sorted)>> \o insert_sorted(Tail(sorted), r)

RECURSIVE sort_records_by_date(_)
sort_records_by_date(records) ==
    IF records = <<>> THEN <<>>
    ELSE insert_sorted(sort_records_by_date(SubSeq(records, 1, Len(records) - 1)),
                       records[Len(records)])

\* record.get("month", "").strip()
stripped_month(record) == IF record.month.t = "absent" THEN <<>> ELSE strip(record.month.s)

\* a lookup that compares the stored month as it is, without strip()
get_existing_exact(d, month) ==
    LET hits == {i \in 1..Len(d.monthly_records) :
                    ~d.monthly_records[i].isdict
                    \/ d.monthly_records[i].month = StrV(month)}
        first == IF hits = {} THEN 0 ELSE CHOOSE i \in hits : \A j \in hits : i <= j
    IN  IF first # 0 /\ ~d.monthly_records[first].isdict
            THEN [exc |-> "AttributeError", idx |-> 0]
        ELSE [exc |-> "none", idx |-> first]

\* the index of the record get_existing_data_for_month returns, 0 for {}
get_existing_data_for_month(d, month) ==
    LET hits == {i \in 1..Len(d.monthly_records) :
                    ~d.monthly_records[i].isdict
                    \/ stripped_month(d.monthly_records[i]) = strip(month)}
        first == IF hits = {} THEN 0 ELSE CHOOSE i \in hits : \A j \in hits : i <= j
    IN  IF first # 0 /\ ~d.monthly_records[first].isdict
            THEN [exc |-> "AttributeError", idx |-> 0]
        ELSE [exc |-> "none", idx |-> first]

FieldOf(record, field) == IF field = "salary" THEN record.salary ELSE record.expenses

\* int(record.get(field, "0"))
field_int(record, field) ==
    IF FieldOf(record, field).t = "absent" THEN Ok(0) ELSE py_int(FieldOf(record, field))

\* any(int(record.get(field, "0")) > 0 for record in records) inside try/except
has_field_data(d, field) ==
    LET recs == d.monthly_records
        stops == {i \in 1..Len(recs) :
                     \/ ~recs[i].isdict
                     \/ field_int(recs[i], field).exc # "none"
                     \/ field_int(recs[i], field).n > 0}
        first == IF stops = {} THEN 0 ELSE CHOOSE i \in stops : \A j \in stops : i <= j
    IN  IF first = 0 THEN [exc |-> "none", b |-> FALSE]
        ELSE IF ~recs[first].isdict THEN [exc |-> "AttributeError", b |-> FALSE]
        ELSE IF field_int(recs[first], field).exc # "none" THEN [exc |-> "none", b |-> FALSE]
        ELSE [exc |-> "none", b |-> TRUE]

has_salary_data(d) == has_field_data(d, "salary")
has_expense_data(d) == has_field_data(d, "expenses")

\* lines 94-103: the sum of a field over the records, a value int() refuses
\* adding nothing
RECURSIVE total_of(_, _)
total_of(records, field) ==
    IF records = <<>> THEN 0
    ELSE total_of(SubSeq(records, 1, Len(records) - 1), field)
         + (IF field_int(records[Len(records)], field).exc = "none"
                THEN field_int(records[Len(records)], field).n ELSE 0)

\* averages taken over the records that hold a value other than 0
averages_of_nonzero(d) ==
    LET counted(field) ==
            Cardinality({i \in 1..Len(d.monthly_records) :
                            total_of(<<d.monthly_records[i]>>, field) # 0})
    IN  [income |-> total_of(d.monthly_records, "salary"),
         income_count |-> counted("salary"),
         expenses |-> total_of(d.monthly_records, "expenses"),
         expenses_count |-> counted("expenses")]

\* calculate_averages: the two quotients total / len(records), kept as their
\* numerators and denominators; (0.0, 0.0) without records
calculate_averages(d) ==
    [income |-> total_of(d.monthly_records, "salary"),
     income_count |-> Len(d.monthly_records),
     expenses |-> total_of(d.monthly_records, "expenses"),
     expenses_count |-> Len(d.monthly_records)]

\* int(<float>) of a quotient: the fraction is cut off toward zero
int_of_quotient(total, count) ==
    IF count = 0 THEN 0
    ELSE IF total >= 0 THEN total \div count
    ELSE -((-total) \div count)

\* predict_next_month: <<predicted_income, predicted_expenses, predicted_difference>>
predict_next_month(d) ==
    LET predicted(avg) ==
            <<int_of_quotient(avg.income, avg.income_count),
              int_of_quotient(avg.expenses, avg.expenses_count),
              int_of_quotient(avg.income, avg.income_count)
                  - int_of_quotient(avg.expenses, avg.expenses_count)>>
    IN  predicted(calculate_averages(d))

----------------------------------------------------------------------------
(* budget.py                                                               *)

\* The content of DATA_FILE: no file, text that is not JSON, or a JSON object
\* that may hold monthly_records and a balance under one of two keys
File(kind, has, recs, key, bal) ==
    [kind |-> kind, has_records |-> has, monthly_records |-> recs,
     balance_key |-> key, balance |-> bal]
MissingFile == File("missing", FALSE, <<>>, "none", Absent)
CorruptFile == File("corrupt", FALSE, <<>>, "none", Absent)

Dataset(recs, bal) == [monthly_records |-> recs, bank_balance |-> bal]

\* load_data: the dataset handed to main(), and whether it is DEFAULT_DATA.copy(),
\* a shallow copy that shares the list of DEFAULT_DATA
load_data(file, default) ==
    LET copy == [data |-> Dataset(default.monthly_records, default.bank_balance),
                 shares |-> TRUE]
        raw == Dataset(file.monthly_records,
                       IF file.balance_key = "none" THEN IntV(0) ELSE file.balance)
        norm == validate_and_normalize_data(raw)
    IN  IF file.kind # "json" THEN copy
        ELSE IF ~file.has_records THEN copy
        ELSE IF norm.exc = "none" THEN [data |-> norm.data, shares |-> FALSE]
        ELSE IF norm.exc = "ValueError" THEN [data |-> raw, shares |-> FALSE]
        ELSE copy

\* a copy written without its expenses
drop_expenses(record) == Rec(record.month, StrV(py_str(record.salary)), Absent)

\* the records of save_data's copy, salary and expenses passed through str()
stringify(record) == Rec(record.month, StrV(py_str(record.salary)), StrV(py_str(record.expenses)))

\* save_data up to the open(): the JSON text to write, or the exception raised
save_image(d) ==
    LET recs == d.monthly_records
        bad == {i \in 1..Len(recs) : ~recs[i].isdict \/ recs[i].salary.t = "absent"
                                      \/ recs[i].expenses.t = "absent"}
        first == CHOOSE i \in bad : \A j \in bad : i <= j
    IN  IF \E i \in 1..Len(recs) : ~recs[i].isdict
            THEN [exc |-> "AttributeError", file |-> MissingFile]
        ELSE IF bad # {} THEN [exc |-> "KeyError", file |-> MissingFile]
        ELSE [exc |-> "none",
              file |-> File("json", TRUE, [i \in 1..Len(recs) |-> stringify(recs[i])],
                            "bank_balance", d.bank_balance)]

\* lines 98-105: the validated amount, or the exception that leaves the call
validate_without_month(month, amount) == ensure_valid_financial_input(amount)
validate_record_input(month, amount) ==
    LET checked(a) ==
            IF a.exc # "none" THEN a
            ELSE IF ~ensure_valid_month_format(month) THEN Raise("ValueError")
            ELSE a
    IN  checked(ensure_valid_financial_input(amount))

\* lines 107-108: the first entry the loop stops at; record["month"] raises on
\* an entry that is no dict or has no month key
find_nothing(recs, month) == [exc |-> "none", idx |-> 0]
find_record(recs, month) ==
    LET stops == {i \in 1..Len(recs) :
                     \/ ~recs[i].isdict
                     \/ recs[i].month.t = "absent"
                     \/ (recs[i].month.t = "str" /\ recs[i].month.s = month)}
        first == IF stops = {} THEN 0 ELSE CHOOSE i \in stops : \A j \in stops : i <= j
    IN  IF first # 0 /\ ~recs[first].isdict THEN [exc |-> "TypeError", idx |-> 0]
        ELSE IF first # 0 /\ recs[first].month.t = "absent" THEN [exc |-> "KeyError", idx |-> 0]
        ELSE [exc |-> "none", idx |-> first]

\* lines 115-119
new_record(month, n, is_salary) ==
    Rec(StrV(month), IntV(IF is_salary THEN n ELSE 0), IntV(IF is_salary THEN 0 ELSE n))

\* lines 109-112
replace_record(record, n, is_salary) == new_record(record.month.s, n, is_salary)
\* an update that adds the amount to the value the field holds
accumulate_record(record, n, is_salary) ==
    IF is_salary THEN [record EXCEPT !.salary = IntV(@.n + n)]
    ELSE [record EXCEPT !.expenses = IntV(@.n + n)]
update_record(record, n, is_salary) ==
    IF is_salary THEN [record EXCEPT !.salary = IntV(n)]
    ELSE [record EXCEPT !.expenses = IntV(n)]

\* the list left unsorted after the append
append_unsorted(records) == records

\* the sorted list of a slice that misses the first record
sorted_without_first(records) == sort_records_by_date(Tail(records))

\* line 123
sort_after_append(records) == sort_records_by_date(records)

\* add_monthly_record: the exception raised, or the dataset returned, with the
\* index of the record updated in place (0 when a record was appended)
add_monthly_record(d, month, amount, is_salary) ==
    LET recs == d.monthly_records
        result(a, found, new) ==
            IF a.exc # "none" THEN [exc |-> a.exc, data |-> d, idx |-> 0, new |-> new]
            ELSE IF found.exc # "none"
                THEN [exc |-> found.exc, data |-> d, idx |-> 0, new |-> new]
            ELSE IF found.idx # 0
                THEN [exc |-> "none", idx |-> found.idx, new |-> new,
                      data |-> [d EXCEPT !.monthly_records[found.idx] =
                                   update_record(@, a.n, is_salary)]]
            ELSE [exc |-> "none", idx |-> 0, new |-> new,
                  data |-> [d EXCEPT !.monthly_records = sort_after_append(Append(recs, new))]]
        validated(a) == result(a, find_record(recs, month), new_record(month, a.n, is_salary))
    IN  validated(validate_record_input(month, amount))

\* an update that adds the amount to the balance the dataset holds
add_to_bank_balance(d, balance) ==
    LET result(b) ==
            IF b.exc # "none" THEN [exc |-> b.exc, data |-> d]
            ELSE [exc |-> "none",
                  data |-> [d EXCEPT !.bank_balance =
                               IF @.t = "int" THEN IntV(@.n + b.n) ELSE IntV(b.n)]]
    IN  result(ensure_valid_financial_input(balance))

update_bank_balance(d, balance) ==
    LET result(b) ==
            IF b.exc # "none" THEN [exc |-> b.exc, data |-> d]
            ELSE [exc |-> "none", data |-> [d EXCEPT !.bank_balance = IntV(b.n)]]
    IN  result(ensure_valid_financial_input(balance))

\* DEFAULT_DATA after add_monthly_record(d, ...) returned res: the append reaches
\* the list DEFAULT_DATA.copy() shares, and a record dict stays shared after
\* sorted() has rebound data["monthly_records"] to a new list
default_after_add(default, shares, d, res) ==
    IF res.exc # "none" THEN default
    ELSE IF res.idx = 0
        THEN IF shares THEN [default EXCEPT !.monthly_records = Append(@, res.new)]
             ELSE default
    ELSE [default EXCEPT !.monthly_records =
             [i \in 1..Len(@) |->
                 IF @[i].month = d.monthly_records[res.idx].month
                     THEN res.data.monthly_records[res.idx] ELSE @[i]]]

shares_after_add(shares, res) == shares /\ ~(res.exc = "none" /\ res.idx = 0)

----------------------------------------------------------------------------
(* parser_utils.py                                                         *)

\* ' '.join(user_input.split()).strip()
collapse_spaces(s) ==
    LET marked == [i \in 1..Len(s) |->
                      [c |-> s[i], keep |-> ~(s[i] = " " /\ i < Len(s) /\ s[i + 1] = " ")]]
        kept == SelectSeq(marked, LAMBDA m : m.keep)
    IN  [i \in 1..Len(kept) |-> kept[i].c]

normalize_input(s) == strip(collapse_spaces(s))

StartsWith(s, prefix) == Len(s) >= Len(prefix) /\ lower(SubSeq(s, 1, Len(prefix))) = prefix

IsWordChar(c) == IsDigit(c) \/ c = "_" \/ \E i \in 1..26 : LowerChars[i] = LowerOf(c)

normalize_month_format(month) ==
    LET p == Len(month) - 2
        month_part == SubSeq(month, 1, p - 1)
        year_part == SubSeq(month, p + 1, Len(month))
    IN  IF Len(month_part) = 1 THEN <<"0">> \o month_part \o <<"/">> \o year_part
        ELSE month_part \o <<"/">> \o year_part

Command(command, amount, month, error, menu_option, exc) ==
    [command |-> command, amount |-> amount, month |-> month, error |-> error,
     menu_option |-> menu_option, exc |-> exc]
Kind(command) == Command(command, Absent, Absent, "none", Absent, "none")
ParseError(error) == Command("none", Absent, Absent, error, Absent, "none")
ParseRaises(exc) == Command("none", Absent, Absent, "none", Absent, exc)

\* line 129: ^([+\-])\s*(\d+)\s+([0-9]+[/\.]\d{2})$ on the normalized input;
\* the groups when it matches
update_match(s) ==
    LET body == IF Len(s) >= 2 /\ s[2] = " " THEN SubSeq(s, 3, Len(s)) ELSE Tail(s)
        spaces == {i \in 1..Len(body) : body[i] = " "}
        sp == CHOOSE i \in spaces : TRUE
        amount_str == SubSeq(body, 1, sp - 1)
        tok == SubSeq(body, sp + 1, Len(body))
        ok == /\ s # <<>> /\ s[1] \in {"+", "-"}
              /\ Cardinality(spaces) = 1
              /\ amount_str # <<>> /\ AllDigits(amount_str)
              /\ Len(tok) >= 4
              /\ AllDigits(SubSeq(tok, 1, Len(tok) - 3))
              /\ tok[Len(tok) - 2] \in {"/", "."}
              /\ IsDigit(tok[Len(tok) - 1]) /\ IsDigit(tok[Len(tok)])
    IN  IF ok THEN [matches |-> TRUE, sign |-> s[1], amount_str |-> amount_str, month |-> tok]
        ELSE [matches |-> FALSE, sign |-> "", amount_str |-> <<>>, month |-> <<>>]

\* lines 160-162: the three patterns of a malformed signed input
malformed_signed(s) ==
    /\ s # <<>> /\ s[1] \in {"+", "-"}
    /\ \/ LET body == lstrip(Tail(s)) IN body # <<>> /\ AllDigits(body)
       \/ Len(s) >= 2 /\ ~IsDigit(s[2])
       \/ \E i \in 2..(Len(s) - 1) :
             /\ s[i] = "/"
             /\ IsDigit(s[i - 1]) /\ i - 1 >= 2
             /\ AllDigits(SubSeq(s, i + 1, Len(s)))

\* what parse_command has not been applied to yet
Unparsed == Command("unparsed", Absent, Absent, "none", Absent, "none")

\* an "add <rest>" line that hands back whatever the parse of <rest> gave
nested_verbatim(nested_result) == nested_result

\* lines 101-109: the result of an "add <rest>" line from the parse of <rest>;
\* an exception of the nested call propagates
add_result(nested_result) ==
    IF nested_result.exc # "none" THEN nested_result
    ELSE IF nested_result.command = "none" \/ nested_result.error # "none"
        THEN ParseError("invalid_command")
    ELSE nested_result

\* a bank line that keeps its command kind when the amount is refused
bank_keeps_kind(amount) ==
    IF amount.exc = "none" THEN Command("bank", IntV(amount.n), Absent, "none", Absent, "none")
    ELSE IF amount.exc = "ValueError"
        THEN Command("bank", Absent, Absent, "invalid_amount", Absent, "none")
    ELSE ParseRaises(amount.exc)

\* lines 113-122: only ValueError is caught
bank_result(amount) ==
    IF amount.exc = "none" THEN Command("bank", IntV(amount.n), Absent, "none", Absent, "none")
    ELSE IF amount.exc = "ValueError" THEN ParseError("invalid_amount")
    ELSE ParseRaises(amount.exc)

\* lines 130-158: only ValueError is caught
update_result(um, amount) ==
    IF amount.exc = "ValueError" THEN ParseError("invalid_amount")
    ELSE IF amount.exc # "none" THEN ParseRaises(amount.exc)
    ELSE IF ~is_valid_month_format_lenient(strip(um.month))
        THEN ParseError("invalid_date")
    ELSE Command(IF um.sign = "+" THEN "income" ELSE "expense", IntV(amount.n),
                 StrV(normalize_month_format(strip(um.month))), "none", Absent, "none")

\* lines 167-189
keyword_result(word) ==
    IF word \in {<<"s", "a", "v", "e">>, <<"r", "e", "t", "u", "r", "n">>,
                 <<"m", "e", "n", "u">>, <<"m", "a", "i", "n">>}
        THEN Kind("menu")
    ELSE IF word = <<"e", "x", "i", "t">> THEN Kind("exit")
    ELSE IF word = <<"g", "r", "a", "p", "h">> THEN Kind("graph")
    ELSE IF word = <<"v", "i", "e", "w">> THEN Kind("view")
    ELSE IF word = <<"a", "d", "d">> THEN Kind("add")
    ELSE ParseError("invalid_command")

RECURSIVE parse_command(_)
parse_command(raw) ==
    LET signed(user_input, um) ==
            IF um.matches
                THEN update_result(um, ensure_valid_financial_input(StrV(strip(um.amount_str))))
            ELSE IF malformed_signed(user_input) THEN ParseError("invalid_command")
            ELSE keyword_result(lower(user_input))
        parsed(user_input) ==
            IF user_input = <<>> THEN Kind("menu")
            ELSE IF AllDigits(user_input)
                THEN Command("menu_option", Absent, Absent, "none",
                             IntV(DigitsValue(user_input)), "none")
            ELSE IF StartsWith(user_input, <<"a", "d", "d", " ">>)
                THEN add_result(parse_command(SubSeq(user_input, 5, Len(user_input))))
            ELSE IF StartsWith(user_input, <<"b", "a", "n", "k", " ">>)
                THEN bank_result(ensure_valid_financial_input(
                                     StrV(strip(SubSeq(user_input, 6, Len(user_input))))))
            ELSE IF StartsWith(user_input, <<"b", "a", "n", "k">>)
                    /\ (Len(user_input) = 4 \/ ~IsWordChar(user_input[5]))
                THEN ParseError("invalid_command")
            ELSE signed(user_input, update_match(user_input))
    IN  parsed(normalize_input(raw))

----------------------------------------------------------------------------
(* The inputs of the model                                                 *)

S_01_25 == <<"0", "1", "/", "2", "5">>
S_12_24 == <<"1", "2", "/", "2", "4">>
S_pad_01_25 == <<" ", "0", "1", "/", "2", "5">>
S_xx == <<"x", "x">>
S_abc == <<"a", "b", "c">>
S_inf == <<"i", "n", "f">>

\* entries a monthly_records list of the file may hold: what save_data writes
\* (salary and expenses as strings) and what an edited file may hold
GoodEntries ==
    { Rec(StrV(S_01_25), StrV(<<"5">>), StrV(<<"3">>)),
      Rec(StrV(S_pad_01_25), StrV(<<"0">>), StrV(<<"3">>)),
      Rec(StrV(S_xx), IntV(0), IntV(-1)) }

\* entries validate_and_normalize_record rejects
BadEntries ==
    { Rec(Absent, StrV(<<"5">>), StrV(<<"3">>)),
      Rec(StrV(S_12_24), StrV(S_abc), Absent),
      NonDict }

\* lists of at most MaxFileRecs entries, at most one of them malformed
FileRecordLists ==
    UNION {{recs \in [1..n -> GoodEntries \cup BadEntries] :
               Cardinality({i \in 1..n : recs[i] \in BadEntries}) <= 1} : n \in 0..MaxFileRecs}

FileBalances == {IntV(7), StrV(S_abc)}

Files ==
    {MissingFile, CorruptFile, File("json", FALSE, <<>>, "bank_balance", IntV(7))}
    \cup {File("json", TRUE, recs, "bank_balance", bal) :
             recs \in FileRecordLists, bal \in FileBalances}
    \cup {File("json", TRUE, <<>>, key, StrV(<<"7">>)) : key \in {"current_balance", "none"}}

\* arguments of direct calls of the record store: <<month, amount, is_salary>>
CallArgs ==
    {<<m, IntV(5), s>> : m \in {S_01_25, S_12_24}, s \in BOOLEAN}
    \cup { <<S_01_25, IntV(-1), TRUE>>, <<S_12_24, StrV(S_abc), FALSE>>,
           <<<<"1", "/", "2", "5">>, IntV(5), TRUE>> }
CallBalances == {IntV(1), IntV(-1), StrV(S_inf)}

NoLine == <<>>
Last(op, month, amount, is_salary, exc, idx, line) ==
    [op |-> op, month |-> month, amount |-> amount, is_salary |-> is_salary,
     exc |-> exc, idx |-> idx, line |-> line]

PristineDefault == Dataset(<<>>, IntV(0))

\* the locals of handle_duplicate_month_entry while its prompt is open
Pending(month, amount, is_income, existing_value, idx) ==
    [month |-> month, amount |-> amount, is_income |-> is_income,
     existing_value |-> existing_value, idx |-> idx]
NoPending == Pending(<<>>, IntV(0), FALSE, 0, 0)

\* main(): the state when the first prompt is shown
InitFrom(files) ==
    \E file \in files :
        /\ disk = file
        /\ DEFAULT_DATA = PristineDefault
        /\ data = load_data(file, PristineDefault).data
        /\ aliased = load_data(file, PristineDefault).shares
        /\ stack = <<>>
        /\ pc = "prompt"
        /\ pending = NoPending
        /\ out = {}
        /\ saved = "none"
        /\ io_failures = 0
        /\ last = Last("load", <<>>, IntV(0), FALSE, "none", 0, NoLine)
        /\ typed = <<>>
        /\ reply = Unparsed

Init == InitFrom(Files)

WithinBounds(d) ==
    /\ Len(d.monthly_records) <= MaxRecs
    /\ d.bank_balance.n <= MaxAmount
    /\ \A i \in 1..Len(d.monthly_records) :
          /\ d.monthly_records[i].salary.n <= MaxAmount
          /\ d.monthly_records[i].expenses.n <= MaxAmount

----------------------------------------------------------------------------
(* main.py, visualization.py, date_utils.py                                *)

Frame(menu, current_view) == [menu |-> menu, current_view |-> current_view]

\* int(record.get("salary", "0")) or int(record.get("expenses", "0")) raises
\* for a record of the list
bad_field(recs) ==
    \E i \in 1..Len(recs) :
        \/ field_int(recs[i], "salary").exc # "none"
        \/ field_int(recs[i], "expenses").exc # "none"

has_non_dict(recs) == \E i \in 1..Len(recs) : ~recs[i].isdict

\* the three checks display_budget_summary, handle_view_graphs and the graph
\* commands make before they show anything
has_budget_data(d) ==
    LET checked(hs) ==
            IF d.monthly_records = <<>> THEN [exc |-> "none", b |-> FALSE]
            ELSE IF hs.exc # "none" \/ ~hs.b THEN hs
            ELSE has_expense_data(d)
    IN  checked(has_salary_data(d))

\* display_budget_summary: the exception that leaves it, or what it returns
display_budget_summary(d) ==
    LET shown(c) ==
            IF c.exc # "none" \/ ~c.b THEN c
            ELSE IF has_non_dict(d.monthly_records) THEN [exc |-> "AttributeError", b |-> FALSE]
            ELSE IF bad_field(d.monthly_records) THEN [exc |-> "ValueError", b |-> FALSE]
            ELSE IF d.bank_balance.t # "int" THEN [exc |-> "TypeError", b |-> FALSE]
            ELSE [exc |-> "none", b |-> TRUE]
    IN  shown(has_budget_data(d))

display_monthly_records(d) ==
    IF d.monthly_records = <<>> THEN [exc |-> "none", b |-> FALSE]
    ELSE IF has_non_dict(d.monthly_records) THEN [exc |-> "AttributeError", b |-> FALSE]
    ELSE IF bad_field(d.monthly_records) THEN [exc |-> "ValueError", b |-> FALSE]
    ELSE [exc |-> "none", b |-> TRUE]

\* the exception raised when the menus on the stack show themselves again:
\* handle_view_data redisplays its current view, the other menus print text
settle(stk, d) ==
    IF stk = <<>> \/ stk[Len(stk)].menu # "view" THEN "none"
    ELSE IF stk[Len(stk)].current_view = "summary" THEN display_budget_summary(d).exc
    ELSE display_monthly_records(d).exc

\* date_utils.parse_month: the outcomes of a month string; a string without
\* exactly one "/" goes to dateutil's fuzzy parser, which may reject it
parse_month(m) ==
    LET p == CHOOSE i \in SlashAt(m) : TRUE
        mo == int_of_str(SubSeq(m, 1, p - 1))
        yr == int_of_str(<<"2", "0">> \o SubSeq(m, p + 1, Len(m)))
    IN  IF Cardinality(SlashAt(m)) # 1 THEN {"none", "ValueError"}
        ELSE IF mo.exc = "none" /\ yr.exc = "none" /\ mo.n \in 1..12 /\ yr.n \in 1..9999
            THEN {"none"}
        ELSE {"ValueError"}

\* visualization.create_history_graph up to the plot
create_history_graph(d) ==
    LET recs == d.monthly_records
        stops == {i \in 1..Len(recs) : ~recs[i].isdict \/ recs[i].month.t = "absent"}
        first == CHOOSE i \in stops : \A j \in stops : i <= j
    IN  IF stops # {} THEN {IF recs[first].isdict THEN "KeyError" ELSE "TypeError"}
        ELSE IF bad_field(recs) THEN {"ValueError"}
        ELSE parse_month(recs[Len(recs)].month.s)

\* handle_view_graphs up to its input(): the exceptions that may leave it
handle_view_graphs(d) ==
    LET shown(c) ==
            IF c.exc # "none" THEN {c.exc}
            ELSE IF ~c.b THEN {"none"}
            ELSE create_history_graph(d)
    IN  shown(has_budget_data(d))

\* budget.save_data: the value it returns and the file it leaves behind; the
\* file system may refuse to create the directory or to open the file
save_data(d, file, failures) ==
    LET written(img) ==
            IF img.exc # "none" THEN {[ok |-> FALSE, disk |-> file, io_failures |-> failures]}
            ELSE {[ok |-> TRUE, disk |-> img.file, io_failures |-> failures]}
                 \cup (IF failures < MaxIOFailures
                           THEN {[ok |-> FALSE, disk |-> file, io_failures |-> failures + 1]}
                       ELSE {})
    IN  written(save_image(d))

\* the dataset before the command, saved in place of the updated one
stale_dataset(before, after) == before

\* the dataset the handlers pass to save_data after data has been rebound
saved_dataset(before, after) == after

\* what handling one input line leads to: the next wait, the dataset, the
\* handler stack, the exception raised or caught, and whether save_data is called
Outcome(pcn, d, dflt, shr, stk, exc, idx, pend, msgs, saves) ==
    [pc |-> pcn, data |-> d, dflt |-> dflt, shares |-> shr, stack |-> stk, exc |-> exc,
     idx |-> idx, pending |-> pend, msgs |-> msgs, saves |-> saves]

\* a loop that reads the data file again on every pass
stay_reloaded(stk, msgs) ==
    Outcome("prompt", load_data(disk, DEFAULT_DATA).data, DEFAULT_DATA, aliased, stk, "none", 0,
            NoPending, msgs, FALSE)

Stay(stk, msgs) ==
    Outcome("prompt", data, DEFAULT_DATA, aliased, stk, "none", 0, NoPending, msgs, FALSE)
Caught(exc) ==
    Outcome("prompt", data, DEFAULT_DATA, aliased, stack, exc, 0, NoPending, {"error"}, FALSE)
Escapes(exc) ==
    Outcome("crashed", data, DEFAULT_DATA, aliased, stack, exc, 0, NoPending, {}, FALSE)

\* the bank branch of the three menus
bank_command(amount) ==
    LET updated(res) ==
            IF res.exc = "none"
                THEN Outcome("prompt", res.data, DEFAULT_DATA, aliased, stack, "none", 0,
                             NoPending, {"success"}, TRUE)
            ELSE IF res.exc = "ValueError" THEN Caught(res.exc)
            ELSE Escapes(res.exc)
    IN  updated(update_bank_balance(data, amount))

\* budget.add_monthly_record called inside try/except ValueError, then save_data
record_added(month, amount, is_income) ==
    LET added(res) ==
            IF res.exc = "none"
                THEN Outcome("prompt", res.data,
                             default_after_add(DEFAULT_DATA, aliased, data, res),
                             shares_after_add(aliased, res), stack, "none", res.idx, NoPending,
                             {"success"}, TRUE)
            ELSE IF res.exc = "ValueError" THEN Caught(res.exc)
            ELSE Escapes(res.exc)
    IN  added(add_monthly_record(data, month, amount, is_income))

\* the income and expense branches of the three menus, up to the prompt of
\* handle_duplicate_month_entry when it is called
entry_command(month, amount, is_income) ==
    LET field == IF is_income THEN "salary" ELSE "expenses"
        other == IF is_income THEN "expenses" ELSE "salary"
        checked(idx, record, value) ==
            IF FieldOf(record, field).t # "absent" /\ value.exc # "none" THEN Caught(value.exc)
            ELSE IF FieldOf(record, field).t # "absent" /\ value.n > 0
                THEN IF /\ FieldOf(record, other).t # "absent"
                        /\ py_int(FieldOf(record, other)).exc # "none"
                         THEN Caught("ValueError")
                     ELSE Outcome("dup", data, DEFAULT_DATA, aliased, stack, "none", idx,
                                  Pending(month, amount, is_income, value.n, idx), {}, FALSE)
            ELSE record_added(month, amount, is_income)
        looked_up(existing) ==
            IF existing.exc # "none" THEN Escapes(existing.exc)
            ELSE IF existing.idx = 0 THEN record_added(month, amount, is_income)
            ELSE checked(existing.idx, data.monthly_records[existing.idx],
                         py_int(FieldOf(data.monthly_records[existing.idx], field)))
    IN  looked_up(get_existing_data_for_month(data, month))

\* handle_view_data up to its first prompt: without data to show it hands over
\* to handle_add_data and returns what that returns
view_entered ==
    LET entered(s) ==
            IF s.exc # "none" THEN Escapes(s.exc)
            ELSE IF s.b THEN Stay(Append(stack, Frame("view", "summary")), {})
            ELSE Stay(Append(stack, Frame("add", "none")), {"error"})
    IN  entered(display_budget_summary(data))

add_entered == Stay(Append(stack, Frame("add", "none")), {})

\* return data: the handler that called this one goes on
returned == Stay(SubSeq(stack, 1, Len(stack) - 1), {})

\* save_data, the two farewell lines, then break or exit(0)
exit_command ==
    Outcome("exited", data, DEFAULT_DATA, aliased, stack, "none", 0, NoPending, {"goodbye"}, TRUE)

graphs_shown ==
    { IF e = "none"
          THEN Outcome("enter", data, DEFAULT_DATA, aliased, stack, "none", 0, NoPending, {}, FALSE)
      ELSE Escapes(e) : e \in handle_view_graphs(data) }

\* the graph branch: main() redirects to handle_add_data when there is nothing
\* to plot, the two menus show an error
graph_command(menu) ==
    LET checked(c) ==
            IF c.exc # "none" THEN {Escapes(c.exc)}
            ELSE IF c.b THEN graphs_shown
            ELSE IF menu = "main" THEN {Stay(Append(stack, Frame("add", "none")), {"error"})}
            ELSE {Stay(stack, {"error"})}
    IN  checked(has_budget_data(data))

\* one pass of the loop of main()
main_menu(cmd) ==
    IF cmd.exc # "none" THEN {Escapes(cmd.exc)}
    ELSE IF cmd.command = "menu_option"
        THEN IF cmd.menu_option.n = 1 THEN {view_entered}
             ELSE IF cmd.menu_option.n = 2 THEN {add_entered}
             ELSE IF cmd.menu_option.n = 3 THEN {exit_command}
             ELSE {Stay(stack, {"error"})}
    ELSE IF cmd.command = "add" THEN {add_entered}
    ELSE IF cmd.error # "none" THEN {Stay(stack, {"error"})}
    ELSE IF cmd.command = "bank" THEN {bank_command(cmd.amount)}
    ELSE IF cmd.command \in {"income", "expense"}
        THEN {entry_command(cmd.month.s, cmd.amount, cmd.command = "income")}
    ELSE IF cmd.command = "exit" THEN {exit_command}
    ELSE IF cmd.command = "graph" THEN graph_command("main")
    ELSE IF cmd.command = "view" THEN {view_entered}
    ELSE {Stay(stack, {"error"})}

\* one pass of the loop of handle_view_data
view_menu(cmd) ==
    LET toggled == [stack EXCEPT ![Len(stack)].current_view =
                        IF @ = "summary" THEN "records" ELSE "summary"]
    IN  IF cmd.exc # "none" THEN {Escapes(cmd.exc)}
        ELSE IF cmd.command = "menu_option"
            THEN IF cmd.menu_option.n = 1 THEN {Stay(toggled, {})}
                 ELSE IF cmd.menu_option.n = 2 THEN graphs_shown
                 ELSE IF cmd.menu_option.n = 3 THEN {returned}
                 ELSE IF cmd.menu_option.n = 4 THEN {exit_command}
                 ELSE {Stay(stack, {"error"})}
        ELSE IF cmd.error # "none" THEN {Stay(stack, {"error"})}
        ELSE IF cmd.command = "menu" THEN {returned}
        ELSE IF cmd.command = "exit" THEN {exit_command}
        ELSE IF cmd.command = "view" THEN {Stay(stack, {})}
        ELSE IF cmd.command = "graph" THEN graph_command("view")
        ELSE IF cmd.command = "bank" THEN {bank_command(cmd.amount)}
        ELSE IF cmd.command \in {"income", "expense"}
            THEN {entry_command(cmd.month.s, cmd.amount, cmd.command = "income")}
        ELSE IF cmd.command = "add" THEN {add_entered}
        ELSE {Stay(stack, {"error"})}

\* one pass of the loop of handle_add_data
add_menu(cmd) ==
    IF cmd.exc # "none" THEN {Escapes(cmd.exc)}
    ELSE IF cmd.error # "none" THEN {Stay(stack, {"error"})}
    ELSE IF cmd.command = "menu" THEN {returned}
    ELSE IF cmd.command = "exit" THEN {exit_command}
    ELSE IF cmd.command = "graph" THEN graph_command("add")
    ELSE IF cmd.command = "bank" THEN {bank_command(cmd.amount)}
    ELSE IF cmd.command \in {"income", "expense"}
        THEN {entry_command(cmd.month.s, cmd.amount, cmd.command = "income")}
    ELSE IF cmd.command = "view" THEN {view_entered}
    ELSE {Stay(stack, {})}

\* a dialog that hands the lines it does not know to the command loop
dispatched_choice(line) ==
    IF strip(line) = <<"1">>
        THEN record_added(pending.month, IntV(pending.existing_value + pending.amount.n),
                          pending.is_income)
    ELSE IF strip(line) = <<"2">>
        THEN record_added(pending.month, pending.amount, pending.is_income)
    ELSE IF parse_command(strip(line)).command = "exit" THEN exit_command
    ELSE IF parse_command(strip(line)).command = "bank"
        THEN bank_command(parse_command(strip(line)).amount)
    ELSE Outcome("prompt", data, DEFAULT_DATA, aliased, stack, "none", 0, NoPending,
                 {"success"}, TRUE)

\* handle_duplicate_month_entry from its input() on, and the save_data of the
\* branch that called it
duplicate_choice(line) ==
    IF strip(line) = <<"1">>
        THEN record_added(pending.month, IntV(pending.existing_value + pending.amount.n),
                          pending.is_income)
    ELSE IF strip(line) = <<"2">>
        THEN record_added(pending.month, pending.amount, pending.is_income)
    ELSE Outcome("prompt", data, DEFAULT_DATA, aliased, stack, "none", 0, NoPending,
                 {"success"}, TRUE)

choice_name(line) ==
    IF strip(line) = <<"1">> THEN "merge"
    ELSE IF strip(line) = <<"2">> THEN "overwrite"
    ELSE "cancel"

command_name(cmd) ==
    IF cmd.exc # "none" THEN "parse_command"
    ELSE IF cmd.error # "none" THEN "error"
    ELSE cmd.command

----------------------------------------------------------------------------
(* The record store called directly                                        *)

CallAddMonthlyRecord ==
    \E args \in CallArgs :
        LET month == args[1]
            amount == args[2]
            is_salary == args[3]
            res == add_monthly_record(data, month, amount, is_salary)
        IN  /\ WithinBounds(res.data)
            /\ data' = res.data
            /\ DEFAULT_DATA' = default_after_add(DEFAULT_DATA, aliased, data, res)
            /\ aliased' = shares_after_add(aliased, res)
            /\ last' = Last("add_monthly_record", month, amount, is_salary, res.exc, res.idx, NoLine)
            /\ UNCHANGED <<disk, stack, pc, pending, out, saved, io_failures, typed, reply>>

CallUpdateBankBalance ==
    \E amount \in CallBalances :
        LET res == update_bank_balance(data, amount)
        IN  /\ WithinBounds(res.data)
            /\ data' = res.data
            /\ last' = Last("update_bank_balance", <<>>, amount, FALSE, res.exc, 0, NoLine)
            /\ UNCHANGED <<DEFAULT_DATA, aliased, disk, stack, pc, pending, out, saved,
                           io_failures, typed, reply>>

NextStore == CallAddMonthlyRecord \/ CallUpdateBankBalance

SpecStore == Init /\ [][NextStore]_vars

----------------------------------------------------------------------------
(* The interactive session                                                 *)

\* lines typed at the prompts of the three menus
InputLines ==
    { <<>>,
      <<"1">>,
      <<"2">>,
      <<"3">>,
      <<"4">>,
      <<"9">>,
      <<"e", "x", "i", "t">>,
      <<"m", "e", "n", "u">>,
      <<"r", "e", "t", "u", "r", "n">>,
      <<"v", "i", "e", "w">>,
      <<"a", "d", "d">>,
      <<"g", "r", "a", "p", "h">>,
      <<"b", "a", "n", "k", " ", "7">>,
      <<"b", "a", "n", "k", " ", "i", "n", "f">>,
      <<"b", "a", "n", "k", " ", "x">>,
      <<"+", "5", " ", "1", "/", "2", "5">>,
      <<"-", "5", " ", "1", "/", "2", "5">>,
      <<"-", "5", " ", "1", "2", ".", "2", "4">>,
      <<"+", "5", " ", "1", "3", "/", "2", "5">>,
      <<"x", "y", "z">> }

\* lines typed at the prompt of handle_duplicate_month_entry
ChoiceLines ==
    { <<"1">>, <<"2">>, <<"3">>, <<" ", "1">>, <<>>,
      <<"e", "x", "i", "t">>, <<"m", "e", "n", "u">>, <<"b", "a", "n", "k", " ", "7">>,
      <<"+", "5", " ", "1", "/", "2", "5">> }

\* files the session starts from: none, one record, a month with a leading
\* space, two records of one month, a balance that is no number, and a last
\* record whose month has no "/"
SessionFiles ==
    { MissingFile,
      File("json", TRUE, <<Rec(StrV(S_01_25), StrV(<<"5">>), StrV(<<"3">>))>>,
           "bank_balance", IntV(7)),
      File("json", TRUE, <<Rec(StrV(S_pad_01_25), StrV(<<"0">>), StrV(<<"3">>))>>,
           "bank_balance", IntV(7)),
      File("json", TRUE, <<Rec(StrV(S_pad_01_25), StrV(<<"0">>), StrV(<<"3">>)),
                           Rec(StrV(S_01_25), StrV(<<"5">>), StrV(<<"3">>))>>,
           "bank_balance", IntV(7)),
      File("json", TRUE, <<Rec(StrV(S_12_24), StrV(S_abc), Absent)>>,
           "bank_balance", StrV(S_abc)),
      File("json", TRUE, <<Rec(StrV(S_01_25), StrV(<<"5">>), StrV(<<"3">>)),
                           Rec(StrV(S_xx), IntV(0), IntV(-1))>>,
           "bank_balance", IntV(7)) }

InitSession == InitFrom(SessionFiles)

\* the state after one input line has been handled and the next wait is reached
EmitLine(op, month, amount, is_salary, o, line) ==
    \E exc2 \in {IF o.pc = "prompt" THEN settle(o.stack, o.data) ELSE "none"} :
        /\ WithinBounds(o.data)
        /\ Len(o.stack) <= MaxDepth
        /\ data' = o.data
        /\ DEFAULT_DATA' = o.dflt
        /\ aliased' = o.shares
        /\ stack' = o.stack
        /\ pc' = IF exc2 # "none" THEN "crashed" ELSE o.pc
        /\ pending' = o.pending
        /\ last' = Last(op, month, amount, is_salary,
                        IF exc2 # "none" THEN exc2 ELSE o.exc, o.idx, line)
        /\ UNCHANGED <<typed, reply>>
        /\ IF o.saves
               THEN \E s \in save_data(saved_dataset(data, o.data), disk, io_failures) :
                        /\ disk' = s.disk
                        /\ io_failures' = s.io_failures
                        /\ saved' = IF s.ok THEN "ok" ELSE "failed"
                        /\ out' = o.msgs \cup (IF s.ok THEN {} ELSE {"save_error"})
           ELSE /\ UNCHANGED <<disk, io_failures>>
                /\ saved' = "none"
                /\ out' = o.msgs

Emit(op, month, amount, is_salary, o) == EmitLine(op, month, amount, is_salary, o, NoLine)

EmitCommand(cmd, o) ==
    Emit(command_name(cmd), IF cmd.month.t = "str" THEN cmd.month.s ELSE <<>>, cmd.amount,
         cmd.command = "income", o)

\* cmd = parser.parse_command(user_input) for the lines typed at a menu prompt
InputCommands == {parse_command(strip(line)) : line \in InputLines}

MainMenu ==
    /\ pc = "prompt" /\ stack = <<>>
    /\ \E cmd \in InputCommands :
          \E o \in main_menu(cmd) : EmitCommand(cmd, o)

ViewMenu ==
    /\ pc = "prompt" /\ stack # <<>> /\ stack[Len(stack)].menu = "view"
    /\ \E cmd \in InputCommands :
          \E o \in view_menu(cmd) : EmitCommand(cmd, o)

AddMenu ==
    /\ pc = "prompt" /\ stack # <<>> /\ stack[Len(stack)].menu = "add"
    /\ \E cmd \in InputCommands :
          \E o \in add_menu(cmd) : EmitCommand(cmd, o)

DuplicateChoice ==
    /\ pc = "dup"
    /\ \E line \in ChoiceLines :
          \E o \in {duplicate_choice(line)} :
              EmitLine(choice_name(line), pending.month, pending.amount, pending.is_income,
                       o, strip(line))

\* the input() the graphs wait at; the caller's loop goes on
PressEnter ==
    /\ pc = "enter"
    /\ Emit("enter", <<>>, Absent, FALSE, Stay(stack, {}))

Next == MainMenu \/ ViewMenu \/ AddMenu \/ DuplicateChoice \/ PressEnter

Spec == InitSession /\ [][Next]_vars

----------------------------------------------------------------------------
(* parse_command applied to lines of text                                  *)

\* the parts of an update line, ^([+\-])\s*(\d+)\s+([0-9]+[/\.]\d{2})$
Signs == {<<"+">>, <<"-">>}
Gaps == {<<>>, <<" ">>}
AmountDigits == {<<"5">>, <<"0", "1", "2">>}
GoodMonthDigits == {<<"1">>, <<"0", "1">>, <<"1", "2">>}
BadMonthDigits == {<<"1", "3">>, <<"0">>}
Separators == {<<"/">>, <<".">>}
TwoDigitYear == <<"2", "5">>
YearDigits == {TwoDigitYear, <<"2", "0", "2", "5">>}

UpdateLine(sign, gap, amount, month, sep, year) ==
    sign \o gap \o amount \o <<" ">> \o month \o sep \o year

SignedLines ==
    {UpdateLine(sign, gap, amount, month, sep, year) :
        sign \in Signs, gap \in Gaps, amount \in AmountDigits,
        month \in GoodMonthDigits \cup BadMonthDigits, sep \in Separators, year \in YearDigits}

\* a run of digits one longer than any finite double has: 1 and 309 zeros
HugeDigits == [i \in 1..(FloatMaxDigits + 1) |-> IF i = 1 THEN "1" ELSE "0"]

BankWord == <<"b", "a", "n", "k">>
BankWords == {BankWord, <<"B", "A", "N", "K">>}
BankRests ==
    { <<>>,
      <<" ">>,
      <<" ", "7">>,
      <<" ", "1", ",", "0", "0", "0">>,
      <<" ", "-", "0", ".", "5">>,
      <<" ", "-", "1">>,
      <<" ", "x">>,
      <<" ", "i", "n", "f">>,
      <<" ", "n", "a", "n">>,
      <<" ", "5", ".">> }

HugeLines ==
    { UpdateLine(<<"+">>, <<>>, HugeDigits, <<"1">>, <<"/">>, TwoDigitYear),
      UpdateLine(<<"-">>, <<>>, HugeDigits, <<"1", "3">>, <<"/">>, TwoDigitYear),
      BankWord \o <<" ">> \o HugeDigits }

BankLines == {word \o rest : word \in BankWords, rest \in BankRests}

\* menu numbers, keywords, blank lines and malformed lines
OtherLines ==
    { <<>>,
      <<" ">>,
      <<"5">>,
      <<"1", "2">>,
      <<"m", "e", "n", "u">>,
      <<"s", "a", "v", "e">>,
      <<"r", "e", "t", "u", "r", "n">>,
      <<"m", "a", "i", "n">>,
      <<"e", "x", "i", "t">>,
      <<"E", "X", "I", "T">>,
      <<"g", "r", "a", "p", "h">>,
      <<"v", "i", "e", "w">>,
      <<"a", "d", "d">>,
      <<"x", "y", "z">>,
      <<"+">>,
      <<"+", "x">>,
      <<"-", "5">>,
      <<"+", " ", "5">>,
      <<"+", "5", " ", "1", "/", "2", "5", " ", "x">>,
      <<"+", "5", " ", "1", "/", "5">>,
      <<"-", "x", " ", "1", "/", "2", "5">>,
      <<"b", "a", "n", "k", "x">>,
      <<"b", "a", "n", "k", "-", "5">>,
      <<" ", "+", "5", " ", " ", "1", "/", "2", "5", " ">> }

ParserLines == SignedLines \cup HugeLines \cup BankLines \cup OtherLines

AddPrefix == <<"a", "d", "d", " ">>

\* the number of "add " prefixes a line starts with
RECURSIVE add_count(_)
add_count(s) ==
    IF StartsWith(lstrip(s), AddPrefix)
        THEN 1 + add_count(SubSeq(lstrip(s), 5, Len(lstrip(s))))
        ELSE 0

InitParser ==
    /\ disk = MissingFile
    /\ DEFAULT_DATA = PristineDefault
    /\ data = load_data(MissingFile, PristineDefault).data
    /\ aliased = load_data(MissingFile, PristineDefault).shares
    /\ stack = <<>>
    /\ pc = "prompt"
    /\ pending = NoPending
    /\ out = {}
    /\ saved = "none"
    /\ io_failures = 0
    /\ last = Last("load", <<>>, IntV(0), FALSE, "none", 0, NoLine)
    /\ typed \in ParserLines
    /\ reply = Unparsed

\* parse_command(typed)
ParseCommand ==
    /\ reply = Unparsed
    /\ reply' = parse_command(typed)
    /\ UNCHANGED <<data, DEFAULT_DATA, aliased, disk, stack, pc, pending, out, saved,
                   io_failures, last, typed>>

\* the same text after "add ", to be parsed in its turn
PrefixAdd ==
    /\ add_count(typed) < MaxAdds
    /\ typed' = AddPrefix \o typed
    /\ reply' = Unparsed
    /\ UNCHANGED <<data, DEFAULT_DATA, aliased, disk, stack, pc, pending, out, saved,
                   io_failures, last>>

NextParser == ParseCommand \/ PrefixAdd

SpecParser == InitParser /\ [][NextParser]_vars

----------------------------------------------------------------------------
(* ensure_valid_financial_input applied to amounts                         *)

\* numeric literals: an optional sign, an integer part, an optional fraction;
\* and strings that are no numbers
AmountStrings ==
    {sign \o int \o frac :
        sign \in {<<>>, <<"-">>, <<"+">>},
        int \in {<<"0">>, <<"5">>, <<"1", "2">>, <<"1", "0", "0", "0">>},
        frac \in {<<>>, <<".">>, <<".", "0">>, <<".", "5">>}}
    \cup {<<>>, S_abc, S_inf, <<"n", "a", "n">>, <<"-">>, <<".">>, <<"-", ".", "5">>,
          <<"5", "x">>}

AmountInputs == {StrV(a) : a \in AmountStrings} \cup {IntV(-1), IntV(0), IntV(5)}

SeparatorChars == {",", " "}

\* the commas and blanks of an amount string
separators(str) == Len(SelectSeq(str, LAMBDA c : c \in SeparatorChars))

InitAmount ==
    /\ disk = MissingFile
    /\ DEFAULT_DATA = PristineDefault
    /\ data = load_data(MissingFile, PristineDefault).data
    /\ aliased = load_data(MissingFile, PristineDefault).shares
    /\ stack = <<>>
    /\ pc = "prompt"
    /\ pending = NoPending
    /\ out = {}
    /\ saved = "none"
    /\ io_failures = 0
    /\ last = Last("load", <<>>, IntV(0), FALSE, "none", 0, NoLine)
    /\ typed \in AmountInputs
    /\ reply = Unparsed

\* ensure_valid_financial_input(typed)
ValidateAmount ==
    /\ reply = Unparsed
    /\ reply' = ensure_valid_financial_input(typed)
    /\ UNCHANGED <<data, DEFAULT_DATA, aliased, disk, stack, pc, pending, out, saved,
                   io_failures, last, typed>>

\* the same amount written with one more comma or blank, to be validated in
\* its turn
AddSeparator ==
    /\ typed.t = "str"
    /\ separators(typed.s) < MaxSeparators
    /\ \E c \in SeparatorChars, k \in 0..Len(typed.s) :
          typed' = StrV(SubSeq(typed.s, 1, k) \o <<c>> \o SubSeq(typed.s, k + 1, Len(typed.s)))
    /\ reply' = Unparsed
    /\ UNCHANGED <<data, DEFAULT_DATA, aliased, disk, stack, pc, pending, out, saved,
                   io_failures, last>>

NextAmount == ValidateAmount \/ AddSeparator

SpecAmount == InitAmount /\ [][NextAmount]_vars

----------------------------------------------------------------------------
(* Properties of the record store                                          *)

Records == data.monthly_records
LastAdd == last.op = "add_monthly_record"

SortedByDate(recs) ==
    \A i, j \in 1..Len(recs) : i < j => ~KeyLess(get_date_key(recs[j]), get_date_key(recs[i]))

CountMonth(recs, m) == Cardinality({i \in 1..Len(recs) : recs[i].isdict /\ recs[i].month = m})

UniqueMonths(recs) ==
    \A i \in 1..Len(recs) :
        (recs[i].isdict /\ recs[i].month.t # "absent") => CountMonth(recs, recs[i].month) = 1

\* every entry is a record of the data model: a dict with a month key
WellFormed(recs) == \A i \in 1..Len(recs) : recs[i].isdict /\ recs[i].month.t # "absent"

\* the sequence without its k-th element
Without(recs, k) == [i \in 1..(Len(recs) - 1) |-> IF i < k THEN recs[i] ELSE recs[i + 1]]

\* the same records, whatever their order
CountOf(recs, r) == Cardinality({i \in 1..Len(recs) : recs[i] = r})
SameRecords(s1, s2) ==
    /\ Len(s1) = Len(s2)
    /\ \A i \in 1..Len(s1) : CountOf(s1, s1[i]) = CountOf(s2, s1[i])

\* C3 as stated: after an add_monthly_record call on any dataset load can return,
\* monthly_records is non-decreasing in the key (year, month-number)
C3_SortedAfterAnyAdd == (LastAdd /\ last.exc = "none") => SortedByDate(Records)

\* C3 amended: a call that appends a record leaves monthly_records non-decreasing
\* in the key (a month that does not parse has key (0,0) and comes first), and
\* a call that updates a record in place keeps a sorted list sorted
C3_SortedAfterAppend ==
    [][(last'.op = "add_monthly_record" /\ last'.exc = "none"
          /\ (last'.idx = 0 \/ SortedByDate(Records)))
       => SortedByDate(data'.monthly_records)]_vars

\* C3 witness: a record for 12/24 was appended to a list that holds later and
\* unparseable months, and sorting moved it between them
C3_Witness ==
    /\ LastAdd /\ last.exc = "none" /\ last.idx = 0 /\ last.month = S_12_24
    /\ Len(Records) = 3
    /\ Records[1].month = StrV(S_xx)
    /\ Records[2].month = StrV(S_12_24)

\* C4 as stated: no two entries of monthly_records have the same month key
C4_UniqueMonthKeys == UniqueMonths(Records)

\* C4 amended: no operation of the record store adds a record whose month key
\* an existing record already has, so month keys that are distinct stay distinct
\* (load keeps the duplicate months of the file)
C4_NoDuplicateAdded ==
    [][\A i \in 1..Len(data'.monthly_records) :
          LET m == data'.monthly_records[i].month
          IN  CountMonth(data'.monthly_records, m) <= 1
              \/ CountMonth(data'.monthly_records, m) = CountMonth(Records, m)]_vars

\* C4 witness: a call addressed a month that already had a record
C4_Witness ==
    /\ LastAdd /\ last.exc = "none" /\ last.idx # 0
    /\ UniqueMonths(Records) /\ Len(Records) >= 2

\* C5: on a dataset of records (dicts with a month key), add_monthly_record with
\* a valid amount and a canonical month returns; when a record with that month
\* exists only the addressed field of the first such record changes, to the
\* amount; otherwise exactly one record (amount in the addressed field, 0 in the
\* other) is added; all other records and bank_balance are as before
C5_UpsertFrame ==
    [][(last'.op = "add_monthly_record"
          /\ ensure_valid_financial_input(last'.amount).exc = "none"
          /\ ensure_valid_month_format(last'.month)
          /\ WellFormed(Records))
       => LET old == Records
              new == data'.monthly_records
              n == ensure_valid_financial_input(last'.amount).n
              hit == {i \in 1..Len(old) : old[i].month = StrV(last'.month)}
          IN  /\ last'.exc = "none"
              /\ data'.bank_balance = data.bank_balance
              /\ hit # {} =>
                    /\ last'.idx \in hit
                    /\ Len(new) = Len(old)
                    /\ \A j \in 1..Len(old) : j # last'.idx => new[j] = old[j]
                    /\ new[last'.idx].month = old[last'.idx].month
                    /\ IF last'.is_salary
                           THEN new[last'.idx].salary = IntV(n)
                                /\ new[last'.idx].expenses = old[last'.idx].expenses
                       ELSE new[last'.idx].expenses = IntV(n)
                            /\ new[last'.idx].salary = old[last'.idx].salary
              /\ hit = {} =>
                    /\ Len(new) = Len(old) + 1
                    /\ \E k \in 1..Len(new) :
                          /\ new[k] = Rec(StrV(last'.month),
                                          IntV(IF last'.is_salary THEN n ELSE 0),
                                          IntV(IF last'.is_salary THEN 0 ELSE n))
                          /\ SameRecords(Without(new, k), old)]_vars

\* C5 witness: the salary of an existing record was set and its expenses kept
C5_Witness ==
    /\ LastAdd /\ last.exc = "none" /\ last.idx # 0 /\ last.is_salary
    /\ Records[last.idx].salary = IntV(5)
    /\ Records[last.idx].expenses = IntV(3)

----------------------------------------------------------------------------
(* Properties of the session                                               *)

FieldName(is_salary) == IF is_salary THEN "salary" ELSE "expenses"

\* the records whose month, trimmed, is m
MonthHits(recs, m) == {i \in 1..Len(recs) : recs[i].isdict /\ stripped_month(recs[i]) = m}

\* a step that handles an income or expense line typed at a menu prompt
EntryStep == pc = "prompt" /\ last'.op \in {"income", "expense"}

\* a step that handles the line typed at the duplicate dialog
ChoiceStep == pc = "dup" /\ last'.op \in {"merge", "overwrite", "cancel"}

\* C1 as stated: the dialog was opened for the record of the month, whose field
\* held E > 0; choice 1 leaves the field E + P, choice 2 leaves it P, any other
\* choice leaves it E; the other field of the record, every other record and
\* bank_balance are unchanged
C1_DuplicateResolution ==
    [][ChoiceStep
       => LET i == pending.idx
              E == pending.existing_value
              P == pending.amount.n
              old == Records
              new == data'.monthly_records
              expected == IF last'.op = "merge" THEN E + P
                          ELSE IF last'.op = "overwrite" THEN P
                          ELSE E
          IN  /\ Len(new) = Len(old)
              /\ field_int(new[i], FieldName(pending.is_income)) = Ok(expected)
              /\ FieldOf(new[i], FieldName(~pending.is_income))
                     = FieldOf(old[i], FieldName(~pending.is_income))
              /\ \A j \in 1..Len(old) : j # i => new[j] = old[j]
              /\ data'.bank_balance = data.bank_balance]_vars

C7_RecordsNeverRemoved ==
    [][/\ Len(data'.monthly_records) >= Len(Records)
       /\ \A i \in 1..Len(Records) :
             CountMonth(data'.monthly_records, Records[i].month)
                 >= CountMonth(Records, Records[i].month)]_vars

\* C7 witness: a command appended the third record to the dataset
C7_Witness ==
    /\ last.op \in {"income", "expense"} /\ last.exc = "none" /\ last.idx = 0
    /\ pc = "prompt" /\ saved # "none"
    /\ Len(Records) = 3

\* C8: after a bank, income or expense command that completes without error,
\* after every outcome of the duplicate dialog and at every exit, save_data was
\* called before the next input is read, and when it returned True the file
\* holds the serialization of the dataset in memory
C8_WriteThrough ==
    (\/ pc = "exited"
     \/ /\ last.op \in {"bank", "income", "expense", "merge", "overwrite", "cancel"}
        /\ last.exc = "none" /\ pc # "dup")
    => /\ saved # "none"
       /\ saved = "ok" => (save_image(data).exc = "none" /\ disk = save_image(data).file)

\* C8 witness: a merge was saved, and the file holds the merged value
C8_Witness ==
    /\ last.op = "merge" /\ last.exc = "none" /\ saved = "ok"
    /\ \E i \in 1..Len(disk.monthly_records) : disk.monthly_records[i].expenses = StrV(<<"8">>)

\* C9 as stated: when the save made by an exit fails, the failure is reported,
\* the dataset is kept and the session is at a prompt again
C9_FailedExitSaveKeepsSession ==
    (saved = "failed" /\ last.op \in {"exit", "menu_option"})
    => (pc = "prompt" /\ "save_error" \in out)

\* C10 as stated: no exception leaves the command dispatch of the menus and of
\* the duplicate dialog; the session ends only when the user chose to exit
C10_NoFailureEndsSession == pc # "crashed"

----------------------------------------------------------------------------
(* Properties of the parser                                                *)

Parsed == reply # Unparsed
Returned == Parsed /\ reply.exc = "none"

CommandKinds ==
    {"menu", "menu_option", "add", "income", "expense", "bank", "view", "graph", "exit"}
ErrorCodes == {"invalid_command", "invalid_date", "invalid_amount"}

\* C11 as stated: parse_command raises for no input: whatever fails, a failed
\* amount validation included, comes back as an error code of a Command
C11_ParseNeverRaises == Parsed => reply.exc = "none"

\* C12: every Command that parse_command returns has either a command kind of
\* the nine and no error, or no command kind and an error code of the three;
\* amount is set only for bank, income and expense, month only for income and
\* expense, menu_option only for menu_option
C12_CommandWellFormed ==
    Returned =>
        /\ \/ reply.command \in CommandKinds /\ reply.error = "none"
           \/ reply.command = "none" /\ reply.error \in ErrorCodes
        /\ reply.amount # Absent => reply.command \in {"bank", "income", "expense"}
        /\ reply.month # Absent => reply.command \in {"income", "expense"}
        /\ reply.menu_option # Absent => reply.command = "menu_option"

\* C12 witness: a bank line whose amount was refused came back as an error
C12_Witness ==
    /\ Returned /\ reply.error = "invalid_amount"
    /\ StartsWith(typed, BankWord)

IsAddLine == Len(typed) > 4 /\ SubSeq(typed, 1, 4) = AddPrefix
AddRest == SubSeq(typed, 5, Len(typed))

\* the reply to "add " + rest as C13 derives it from the reply to rest
add_equals_rest(outer, inner) ==
    /\ (inner.exc = "none" /\ inner.command # "none" /\ inner.error = "none") => outer = inner
    /\ (inner.exc = "none" /\ inner.error # "none") => outer = ParseError("invalid_command")

\* C13 as stated: for every non-empty rest, the reply to "add " + rest is the
\* reply to rest when that is a successful command and the error
\* invalid_command when that is an error; the bare word add gives kind add
C13_AddEqualsRest ==
    Parsed =>
        /\ IsAddLine => add_equals_rest(reply, parse_command(AddRest))
        /\ typed = <<"a", "d", "d">> => reply = Kind("add")

\* C13 amended: the same for every rest that holds a character other than
\* whitespace; "add" followed by whitespace alone is the bare word add
C13_AddEqualsNonBlankRest ==
    Parsed =>
        /\ (IsAddLine /\ strip(AddRest) # <<>>) => add_equals_rest(reply, parse_command(AddRest))
        /\ (IsAddLine /\ strip(AddRest) = <<>>) => reply = Kind("add")
        /\ typed = <<"a", "d", "d">> => reply = Kind("add")

\* C13 witness: "add -5 12.25" came back as the expense command of "-5 12.25"
C13_Witness ==
    /\ Parsed /\ IsAddLine
    /\ reply = Command("expense", IntV(5), StrV(<<"1", "2", "/", "2", "5">>), "none", Absent,
                       "none")

\* MM/YY of the digits of a month and of a two-digit year
CanonicalMonth(month, year) ==
    (IF DigitsValue(month) < 10 THEN <<"0">> ELSE <<>>) \o NatToStr(DigitsValue(month))
        \o <<"/">> \o year

\* C14 as stated: a sign, an optional space, digits, a space and a month token
\* M/YY or M.YY with month 1..12 give income (+) or expense (-) with the integer
\* value of the digits as amount and the zero-padded MM/YY as month, which
\* satisfies the strict ensure_valid_month_format
C14_UpdateLineParsed ==
    Parsed =>
        \A sign \in Signs, gap \in Gaps, amount \in AmountDigits \cup {HugeDigits},
           month \in GoodMonthDigits, sep \in Separators :
            typed = UpdateLine(sign, gap, amount, month, sep, TwoDigitYear)
            => /\ reply.exc = "none"
               /\ reply = Command(IF sign = <<"+">> THEN "income" ELSE "expense",
                                  IntV(DigitsValue(amount)),
                                  StrV(CanonicalMonth(month, TwoDigitYear)), "none", Absent,
                                  "none")
               /\ ensure_valid_month_format(reply.month.s)

\* signed lines C15 calls malformed: a sign followed by a non-digit, a sign and
\* digits with no month, a month token whose year is not exactly two digits
MalformedLines ==
    { <<"+", "x">>, <<"-", "x", " ", "1", "/", "2", "5">>, <<"-", "5">>, <<"+", " ", "5">>,
      <<"+", "5", " ", "1", "/", "5">> }
    \cup {UpdateLine(sign, gap, amount, month, <<"/">>, <<"2", "0", "2", "5">>) :
             sign \in Signs, gap \in Gaps, amount \in AmountDigits, month \in GoodMonthDigits}

\* C15 as stated: a line that starts with a sign yields no command other than
\* income and expense; when it matches the update pattern and its month fails
\* the lenient validation the reply is invalid_date; when it is malformed the
\* reply is invalid_command
C15_SignedLineReplies ==
    (Parsed /\ typed # <<>> /\ typed[1] \in {"+", "-"}) =>
        /\ reply.command \in {"income", "expense", "none"}
        /\ \A sign \in Signs, gap \in Gaps, amount \in AmountDigits \cup {HugeDigits},
              month \in BadMonthDigits, sep \in Separators :
               typed = UpdateLine(sign, gap, amount, month, sep, TwoDigitYear)
               => reply = ParseError("invalid_date")
        /\ typed \in MalformedLines => reply = ParseError("invalid_command")

\* the reply to "bank <rest>" as C16 derives it from the validation of <rest>
bank_as_validated(r, validated) ==
    IF validated.exc = "none"
        THEN r = Command("bank", IntV(validated.n), Absent, "none", Absent, "none")
        ELSE r = ParseError("invalid_amount")

\* C16 as stated: bank (in any case) followed by a non-empty rest gives the bank
\* command with the validated non-negative integer when the rest is a valid
\* amount and invalid_amount otherwise; the bare word bank gives invalid_command
C16_BankLineReplies ==
    Parsed =>
        /\ (/\ Len(typed) > 5 /\ lower(SubSeq(typed, 1, 5)) = BankWord \o <<" ">>
            /\ strip(SubSeq(typed, 6, Len(typed))) # <<>>)
           => bank_as_validated(reply, ensure_valid_financial_input(
                                           StrV(strip(SubSeq(typed, 6, Len(typed))))))
        /\ lower(strip(typed)) = BankWord => reply = ParseError("invalid_command")

----------------------------------------------------------------------------
(* Properties of the bank balance and of repeated updates                  *)

C18_AddTwiceIsOnce ==
    (/\ LastAdd
     /\ ensure_valid_financial_input(last.amount).exc = "none"
     /\ ensure_valid_month_format(last.month))
    => LET again(second) == second.exc = last.exc /\ second.data = data
       IN  again(add_monthly_record(data, last.month, last.amount, last.is_salary))

\* C18 witness: the first application appended a record for expenses of 12/24
\* next to others, so that the second finds it in the sorted list
C18_Witness ==
    /\ LastAdd /\ last.exc = "none" /\ last.idx = 0
    /\ last.month = S_12_24 /\ ~last.is_salary
    /\ Len(Records) >= 2
    /\ \E i \in 1..Len(Records) :
          Records[i] = Rec(StrV(S_12_24), IntV(0), IntV(5))

----------------------------------------------------------------------------
(* Properties of the loaded dataset                                        *)

Loaded == last.op = "load"

\* a dataset whose bank_balance is an integer and whose entries are records
\* with a month key and integer salary and expenses
WellTyped(d) ==
    /\ d.bank_balance.t = "int"
    /\ \A i \in 1..Len(d.monthly_records) :
          /\ d.monthly_records[i].isdict
          /\ d.monthly_records[i].month.t # "absent"
          /\ d.monthly_records[i].salary.t = "int"
          /\ d.monthly_records[i].expenses.t = "int"

\* C19 as stated: whatever the file holds, the dataset load_data hands to the
\* session is well-typed: bank_balance is an integer and every record has a
\* month key and integer salary and expenses
C19_LoadedWellTyped == Loaded => WellTyped(data)

\* an entry of the file that normalizes: a dict with a month key whose salary
\* and expenses, where present, convert with int()
Normalizes(entry) ==
    /\ entry.isdict
    /\ entry.month.t # "absent"
    /\ entry.salary.t # "absent" => py_int(entry.salary).exc = "none"
    /\ entry.expenses.t # "absent" => py_int(entry.expenses).exc = "none"

IntOrZero(v) == IF v.t = "absent" THEN 0 ELSE py_int(v).n

\* the entries of the file that normalize, in their order, normalized
NormalizedEntries(entries) ==
    LET kept == SelectSeq(entries, Normalizes)
    IN  [i \in 1..Len(kept) |->
            Rec(kept[i].month, IntV(IntOrZero(kept[i].salary)), IntV(IntOrZero(kept[i].expenses)))]

FileBalance == IF disk.balance_key = "none" THEN IntV(0) ELSE disk.balance

\* C20 as stated: each entry of the file is normalized on its own: an entry
\* that fails (no month, a salary or expenses that does not convert, a wrong
\* shape) is dropped, and every other entry and the bank balance are loaded
C20_FailedEntryDropped ==
    (/\ Loaded /\ disk.kind = "json" /\ disk.has_records
     /\ py_int(FileBalance).exc = "none")
    => /\ data.monthly_records = NormalizedEntries(disk.monthly_records)
       /\ data.bank_balance = IntV(py_int(FileBalance).n)

----------------------------------------------------------------------------
(* Properties of the amounts                                               *)

\* C21 as stated: in every dataset the session holds, the one load returned and
\* every one reached from it by bank, income, expense and duplicate-resolution
\* commands, bank_balance >= 0 and every record's salary >= 0 and expenses >= 0
C21_AmountsNonNegative ==
    WellTyped(data)
    => /\ data.bank_balance.n >= 0
       /\ \A i \in 1..Len(Records) :
             Records[i].salary.n >= 0 /\ Records[i].expenses.n >= 0

\* an amount string without its commas and blanks
Cleaned(str) == SelectSeq(str, LAMBDA c : c \notin SeparatorChars)

DotsOf(str) == {i \in 1..Len(str) : str[i] = "."}

\* a decimal literal: an optional sign, digits with at most one point, at least
\* one digit
IsDecimal(str) ==
    /\ Cardinality(DotsOf(Unsigned(str))) <= 1
    /\ \A i \in 1..Len(Unsigned(str)) : IsDigit(Unsigned(str)[i]) \/ Unsigned(str)[i] = "."
    /\ \E i \in 1..Len(Unsigned(str)) : IsDigit(Unsigned(str)[i])

\* the digits before the point of an unsigned decimal literal
WholePart(u) == IF DotsOf(u) = {} THEN u ELSE SubSeq(u, 1, (CHOOSE i \in DotsOf(u) : TRUE) - 1)

\* a decimal literal below zero: a minus sign and a digit other than 0
IsNegativeDecimal(str) ==
    /\ IsDecimal(str) /\ str[1] = "-"
    /\ \E i \in 1..Len(str) : IsDigit(str[i]) /\ str[i] # "0"

\* C22 as stated: for a valid amount, a number or a numeric string with
\* thousands separators and whitespace, ensure_valid_financial_input returns the
\* integer of the cleaned numeric value, the fraction truncated toward zero; it
\* fails for every negative and for every non-numeric input; its result is >= 0
C22_AmountNormalized ==
    (reply # Unparsed)
    => IF typed.t = "int"
           THEN IF typed.n < 0 THEN reply.exc # "none" ELSE reply = Ok(typed.n)
       ELSE IF ~IsDecimal(Cleaned(typed.s)) \/ IsNegativeDecimal(Cleaned(typed.s))
           THEN reply.exc # "none"
       ELSE reply = Ok(DigitsValue(WholePart(Unsigned(Cleaned(typed.s)))))

----------------------------------------------------------------------------
(* Properties of saving and loading                                        *)

\* C23: round trip: for every normalized dataset, load_data of the file that
\* save_data wrote returns a dataset with the same bank_balance and the same
\* sequence of records (month, salary, expenses), salary and expenses integers
C23_SaveLoadRoundTrip ==
    (saved = "ok" /\ WellTyped(data))
    => LET same(loaded) == loaded.data = data /\ WellTyped(loaded.data)
       IN  same(load_data(disk, DEFAULT_DATA))

\* C23 witness: a dataset of two records was saved with its amounts as strings
C23_Witness ==
    /\ saved = "ok" /\ WellTyped(data)
    /\ Len(Records) = 2 /\ data.bank_balance = IntV(7)
    /\ disk.monthly_records[1].salary.t = "str"
    /\ Records[1].expenses.n > 0

----------------------------------------------------------------------------
(* Properties of the calculations                                          *)

\* a field coerced to an integer, a value that does not convert counted as 0
CoercedOrZero(record, field) ==
    IF field_int(record, field).exc = "none" THEN field_int(record, field).n ELSE 0

\* C24 as stated: has_salary_data, and has_expense_data, is true if and only if
\* the salary, the expenses, of at least one record, coerced to an integer with
\* a value that does not convert counted as 0, is strictly positive, whatever
\* the order of the records and whatever the other records hold
C24_HasDataIffPositive ==
    (\A i \in 1..Len(Records) : Records[i].isdict)
    => \A field \in {"salary", "expenses"} :
           /\ has_field_data(data, field).exc = "none"
           /\ has_field_data(data, field).b
                  <=> \E i \in 1..Len(Records) : CoercedOrZero(Records[i], field) > 0

\* the sum of a field over the records
RECURSIVE SumOf(_, _)
SumOf(recs, field) ==
    IF recs = <<>> THEN 0 ELSE CoercedOrZero(Head(recs), field) + SumOf(Tail(recs), field)

\* q is total / count with the fraction cut off toward zero
IsTruncatedMean(q, total, count) ==
    /\ total >= 0 => (q >= 0 /\ q * count <= total /\ total < (q + 1) * count)
    /\ total < 0 => (q <= 0 /\ q * count >= total /\ total > (q - 1) * count)

\* C25: predict_next_month returns (I, E, I - E), I the mean of salary and E the
\* mean of expenses over all records, truncated toward zero, a record whose
\* field is 0 counting in the denominator; without records it returns (0, 0, 0)
C25_PredictionIsTruncatedMean ==
    (\A i \in 1..Len(Records) : Records[i].isdict)
    => LET IsPrediction(p) ==
               IF Records = <<>> THEN p = <<0, 0, 0>>
               ELSE /\ IsTruncatedMean(p[1], SumOf(Records, "salary"), Len(Records))
                    /\ IsTruncatedMean(p[2], SumOf(Records, "expenses"), Len(Records))
                    /\ p[3] = p[1] - p[2]
       IN  IsPrediction(predict_next_month(data))

\* C25 witness: salaries 0 and 5 and expenses 3 and 3 predict (2, 3, -1)
C25_Witness ==
    /\ Len(Records) = 2 /\ WellTyped(data)
    /\ \E i \in 1..2 : Records[i].salary = IntV(0)
    /\ predict_next_month(data) = <<2, 3, -1>>

----------------------------------------------------------------------------
(* Properties of the duplicate dialog and of the menus                     *)

\* C26: the line typed at the duplicate dialog is only ever a choice: every
\* line other than 1 and 2, a command such as exit, menu, bank 7 or +5 1/25
\* included, cancels, leaves the balance and the records as they were and
\* does not exit, and after every choice the session waits at the prompt of
\* the menu the income or expense command was typed in
C26_DialogIsModal ==
    [][pc = "dup" =>
          /\ pc' = "prompt"
          /\ stack' = stack
          /\ pending' = NoPending
          /\ last'.op \in {"merge", "overwrite", "cancel"}
          /\ last'.line \notin {<<"1">>, <<"2">>} =>
                 /\ last'.op = "cancel"
                 /\ data' = data]_vars

C26_Witness ==
    /\ last.op = "cancel"
    /\ last.line = <<"b", "a", "n", "k", " ", "7">>
    /\ pc = "prompt"
    /\ Len(stack) = 2
    /\ stack[2].menu = "add"
    /\ Len(data.monthly_records) > 0

\* a step that leaves a nested menu: menu, return or the empty line in the
\* Add menu, menu or option 3 in the View menu
ReturnStep ==
    /\ pc = "prompt"
    /\ stack # <<>>
    /\ \/ last'.op = "menu"
       \/ /\ last'.op = "menu_option"
          /\ stack[Len(stack)].menu = "view"
          /\ Len(stack') < Len(stack)

\* C27: after menu, return or the empty line in the Add menu, and after menu
\* or option 3 in the View menu, the next prompt is the main menu, whatever
\* navigation led to the menu that was left
C27_ReturnsToMainMenu ==
    [][ReturnStep => (pc' = "prompt" /\ stack' = <<>>)]_vars

\* what the code does: the menu that called the one that was left goes on
C27_ReturnsToCaller ==
    [][ReturnStep => stack' = SubSeq(stack, 1, Len(stack) - 1)]_vars

\* the commands that only navigate or report
ReadOnlyOps == {"menu", "menu_option", "view", "graph", "add", "error", "cancel"}

\* C28: in the main, View and Add menus the commands menu, view, graph and
\* the bare add, every numbered option, every command with an error and the
\* Cancel of the duplicate dialog leave monthly_records and bank_balance as
\* they were; only bank, income, expense, Merge and Overwrite change them
C28_OnlyUpdatesChangeData ==
    [][last'.op \in ReadOnlyOps => data' = data]_vars

C28_Witness ==
    /\ last.op = "error"
    /\ pc = "prompt"
    /\ Len(stack) = 2
    /\ stack[1].menu = "view"
    /\ stack[2].menu = "add"
    /\ Len(data.monthly_records) = 2
    /\ saved = "none"

\* C29: the record get_existing_data_for_month found for the dialog is the
\* record add_monthly_record updates on Merge and Overwrite: the number of
\* records is unchanged, every other record is as it was, and no second
\* record of the same trimmed month appears
C29_DetectionAndUpdateAgree ==
    [][(pc = "dup" /\ last'.op \in {"merge", "overwrite"})
       => LET old == Records
              new == data'.monthly_records
          IN  /\ Len(new) = Len(old)
              /\ \A j \in 1..Len(old) : j # pending.idx => new[j] = old[j]
              /\ Cardinality(MonthHits(new, pending.month))
                     = Cardinality(MonthHits(old, pending.month))]_vars

----------------------------------------------------------------------------
(* Properties of the default dataset                                       *)

\* C30: whatever add_monthly_record and update_bank_balance calls are made on
\* a dataset load_data returned, the one it returns as DEFAULT_DATA.copy()
\* included, DEFAULT_DATA keeps an empty monthly_records and a bank_balance
\* of 0
C30_DefaultDataUntouched ==
    /\ DEFAULT_DATA.monthly_records = <<>>
    /\ DEFAULT_DATA.bank_balance = IntV(0)

====
